---------------------------- MODULE Spec2Model ----------------------------
(***************************************************************************)
(* A model of bugzilla_hg.py: the SZZ-style attribution of a bug's fixing  *)
(* revisions to the authors of the lines the fixes touch.                  *)
(*                                                                         *)
(* Strings are sequences of one-character strings, so that the slicing,    *)
(* searching and splitting the program does on the text it gets from hg is *)
(* computed, not assumed.  Python indices are 0-based; the operators below *)
(* take and return Python indices.                                         *)
(***************************************************************************)
EXTENDS Integers, Sequences, FiniteSets, TLC

(***************************************************************************)
(* Python's str and list primitives, as the program uses them.             *)
(***************************************************************************)

Min(a, b) == IF a < b THEN a ELSE b
Max(a, b) == IF a > b THEN a ELSE b

\* Python's normalisation of a slice or search bound: a negative bound
\* counts from the end, and the result is clamped to 0..len.
Clamp(i, n) == IF i < 0 THEN Max(i + n, 0) ELSE Min(i, n)

\* s[a:b]
Slice(s, a, b) ==
    LET lo == Clamp(a, Len(s))
        hi == Clamp(b, Len(s))
    IN  IF lo >= hi THEN << >> ELSE SubSeq(s, lo + 1, hi)

\* s[a:]
SliceFrom(s, a) == Slice(s, a, Len(s))

\* whether sub occurs in s at Python index i
OccursAt(s, sub, i) ==
    /\ i >= 0
    /\ i + Len(sub) <= Len(s)
    /\ \A k \in 1..Len(sub) : s[i + k] = sub[k]

\* s.find(sub, start): the least index >= start at which sub occurs, or -1
Find(s, sub, start) ==
    LET from == Clamp(start, Len(s))
        hits == {i \in from..(Len(s) - Len(sub)) : OccursAt(s, sub, i)}
    IN  IF hits = {} THEN -1
        ELSE CHOOSE i \in hits : \A j \in hits : i <= j

IsSpace(c) == c \in {" ", "\t"}

\* s.split(): the maximal runs of non-whitespace characters, in order
RECURSIVE SplitFrom(_, _, _)
SplitFrom(s, i, cur) ==
    IF i > Len(s)
    THEN IF cur = << >> THEN << >> ELSE <<cur>>
    ELSE IF IsSpace(s[i])
         THEN IF cur = << >> THEN SplitFrom(s, i + 1, << >>)
              ELSE <<cur>> \o SplitFrom(s, i + 1, << >>)
         ELSE SplitFrom(s, i + 1, Append(cur, s[i]))

Split(s) == SplitFrom(s, 1, << >>)

\* s.split(":")[0]: the text before the first colon (all of s without one)
BeforeColon(s) ==
    LET c == Find(s, <<":">>, 0)
    IN  IF c = -1 THEN s ELSE Slice(s, 0, c)

Digits == <<"0", "1", "2", "3", "4", "5", "6", "7", "8", "9">>

IsDigit(c) == \E d \in 1..10 : Digits[d] = c

DigitVal(c) == (CHOOSE d \in 1..10 : Digits[d] = c) - 1

RECURSIVE DigitsVal(_)
DigitsVal(s) ==
    IF s = << >> THEN 0
    ELSE 10 * DigitsVal(SubSeq(s, 1, Len(s) - 1)) + DigitVal(s[Len(s)])

RECURSIVE LStrip(_)
LStrip(s) == IF s # << >> /\ IsSpace(s[1]) THEN LStrip(Tail(s)) ELSE s

RECURSIVE RStrip(_)
RStrip(s) ==
    IF s # << >> /\ IsSpace(s[Len(s)])
    THEN RStrip(SubSeq(s, 1, Len(s) - 1)) ELSE s

\* int(s): surrounding whitespace and one sign are accepted, then digits
\* only; anything else raises ValueError (ok = FALSE).
PyInt(s) ==
    LET t    == RStrip(LStrip(s))
        sign == t # << >> /\ t[1] \in {"+", "-"}
        body == IF sign THEN Tail(t) ELSE t
        good == body # << >> /\ \A k \in 1..Len(body) : IsDigit(body[k])
    IN  IF ~good THEN [ok |-> FALSE, val |-> 0]
        ELSE [ok |-> TRUE,
              val |-> IF sign /\ t[1] = "-" THEN 0 - DigitsVal(body)
                      ELSE DigitsVal(body)]

\* str(n) for n >= 0
RECURSIVE PyStr(_)
PyStr(n) ==
    IF n < 10 THEN <<Digits[n + 1]>>
    ELSE Append(PyStr(n \div 10), Digits[(n % 10) + 1])


\* x in lst, for a Python list kept as a sequence
InList(x, lst) == \E j \in 1..Len(lst) : lst[j] = x

(***************************************************************************)
(* RevisionDiff.__init__, FileDiff.__init__, DiffLines.__init__: the parse *)
(* of one revision's diff text, given as its lines.                        *)
(***************************************************************************)

DiffMarker == <<"d", "i", "f", "f", " ">>

DiffLinesOneBased(start, count) == [start |-> start, count |-> count]

\* DiffLines(start, count): the start is converted to a 0-based index
DiffLines(start, count) == [start |-> start - 1, count |-> count]

FileDiff(revision, filename) ==
    [revision |-> revision, filename |-> filename, diffs |-> << >>]

\* the body of the loop over the lines: the files after the line, and the
\* exception the line raises ("" for none)
ParseLine(files, revision, line) ==
    IF line = << >> THEN [files |-> files, err |-> ""]
    ELSE
      LET isFile == Find(line, DiffMarker, 0) = 0
          toks   == Split(line)
          files1 == IF isFile
                    THEN Append(files,
                                FileDiff(revision, SliceFrom(toks[Len(toks)], 2)))
                    ELSE files
      IN  IF line[1] # "@" THEN [files |-> files1, err |-> ""]
          ELSE
            LET comma == Find(line, <<",">>, 3)
                old_line_start == PyInt(Slice(line, 4, comma))
                diff_size == PyInt(Slice(line, comma + 1, Find(line, <<" ">>, 3)))
            IN  IF ~old_line_start.ok \/ ~diff_size.ok
                THEN [files |-> files1, err |-> "ValueError"]
                ELSE IF files1 = << >>
                THEN [files |-> files1, err |-> "IndexError"]
                ELSE [files |->
                        [files1 EXCEPT ![Len(files1)].diffs =
                            Append(@, DiffLines(old_line_start.val, diff_size.val))],
                      err |-> ""]

\* the loop over the lines, stopped by the first exception
RECURSIVE ParseLines(_, _, _, _)
ParseLines(files, revision, lines, i) ==
    IF i > Len(lines) THEN [files |-> files, err |-> ""]
    ELSE LET r == ParseLine(files, revision, lines[i])
         IN  IF r.err # "" THEN r ELSE ParseLines(r.files, revision, lines, i + 1)

\* RevisionDiff(revision, lines)
RevisionDiff(revision, lines) ==
    LET r == ParseLines(<< >>, revision, lines, 1)
    IN  [revision |-> revision, files |-> r.files, err |-> r.err]

IsRustFileAnywhere(filename) == Find(filename, <<".", "r", "s">>, 0) # -1

\* FileDiff.is_rust_file
is_rust_file(filename) == Find(filename, <<".", "r", "s">>, -3) # -1

(***************************************************************************)
(* FileDiff.get_blamed_revs: the walk over the blame listing with a cursor *)
(* through the file's ranges.                                              *)
(***************************************************************************)

RecordNoExclude(acc, blame_rev, exclude) == acc \cup {blame_rev}

\* lines 100-101: the revision is recorded unless it is excluded
Record(acc, blame_rev, exclude) ==
    IF InList(blame_rev, exclude) THEN acc ELSE acc \cup {blame_rev}

\* the for loop from line index i with the cursor at diffs[k]
\* (k > Len(diffs) is ld = None)
RECURSIVE Scan(_, _, _, _, _, _)
Scan(blame_lines, diffs, exclude, i, k, acc) ==
    IF i >= Len(blame_lines) THEN acc
    ELSE
      LET k1 == IF i >= diffs[k].start + diffs[k].count THEN k + 1 ELSE k
      IN  IF k1 > Len(diffs) THEN acc
          ELSE
            LET acc1 == IF i >= diffs[k1].start
                        THEN Record(acc, BeforeColon(blame_lines[i + 1]), exclude)
                        ELSE acc
            IN  Scan(blame_lines, diffs, exclude, i + 1, k1, acc1)

\* the result for a file with at least one range (next(ldi) succeeded)
FileBlamedRevs(blame_lines, diffs, exclude) ==
    Scan(blame_lines, diffs, exclude, 0, 1, {})

(***************************************************************************)
(* What hg answers.  A diff is kept as its items (file markers, hunk       *)
(* headers, other lines) and handed to the program as the text hg prints   *)
(* for them, in git format: "diff --git a/NAME b/NAME" and                 *)
(* "@@ -START,COUNT +START,COUNT @@".                                      *)
(***************************************************************************)

MaxBlameLen == 2
MaxItems == 3
MaxCount == 1

R8  == <<"8">>
R9  == <<"9">>
R10 == <<"1", "0">>
R11 == <<"1", "1">>
R30 == <<"3", "0">>
R50 == <<"5", "0">>

\* the output of hg log -T "{rev} " --keyword K, most recent first
KeywordOutputs ==
    { << >>,
      <<"1", "1", " ">>,
      <<"1", "1", " ", "1", "0", " ">> }

BlameRevs == {R9, R10, R11}
Authors == {"alice", "bob"}

NameRs  == <<"a", ".", "r", "s">>
NamePy  == <<"b", ".", "p", "y">>
NameRsx == <<".", "r", "s", "x">>
NameShort == <<"r", "s">>

FileItem(name) == [k |-> "file", name |-> name, start |-> 0, count |-> 0]
HunkItem(start, count) ==
    [k |-> "hunk", name |-> << >>, start |-> start, count |-> count]
TextItem(line) == [k |-> "text", name |-> line, start |-> 0, count |-> 0]

FileMarkerLine(name) ==
    <<"d", "i", "f", "f", " ", "-", "-", "g", "i", "t", " ", "a", "/">>
        \o name \o <<" ", "b", "/">> \o name

HunkLine(start, count) ==
    <<"@", "@", " ", "-">> \o PyStr(start) \o <<",">> \o PyStr(count)
        \o <<" ", "+">> \o PyStr(start) \o <<",">> \o PyStr(count + 1)
        \o <<" ", "@", "@">>

FormatItem(it) ==
    CASE it.k = "file" -> FileMarkerLine(it.name)
      [] it.k = "hunk" -> HunkLine(it.start, it.count)
      [] OTHER -> it.name

\* d.splitlines() of the text hg prints for the items
FormatDiff(items) == [i \in 1..Len(items) |-> FormatItem(items[i])]

HeaderLine == <<"u", "s", "e", "r", ":", " ", "@", "x">>
AddedLine  == <<"+", "@", "d", "i", "f", "f", " ", "x">>

\* the diffs of the fixing revisions of a run
DiffTexts ==
    { <<TextItem(HeaderLine), FileItem(NameRs), HunkItem(1, 1)>>,
      <<FileItem(NameRs), HunkItem(1, 1), TextItem(AddedLine), HunkItem(2, 0),
        TextItem(<< >>), FileItem(NamePy), HunkItem(1, 2)>>,
      <<FileItem(NamePy)>>,
      <<FileItem(NameShort), HunkItem(2, 1), FileItem(NameRsx), HunkItem(1, 1)>>,
      << >> }

\* one line of hg annotate: the revision, a colon, the line's text
BlameLine(rev) == rev \o <<":", " ", "x", ":", "y">>

RECURSIVE SeqsUpTo(_, _)
SeqsUpTo(S, n) ==
    IF n = 0 THEN {<< >>}
    ELSE LET shorter == SeqsUpTo(S, n - 1)
         IN  shorter \cup {Append(q, x) : q \in {t \in shorter : Len(t) = n - 1}, x \in S}

\* the listings hg annotate may print for a file
BlameListings == SeqsUpTo({BlameLine(r) : r \in BlameRevs}, MaxBlameLen)

\* the revisions hg may name as the first parent of rev
Parents(rev) == {PyStr(PyInt(rev).val - 1)}

(***************************************************************************)
(* The state of a run of main.                                             *)
(***************************************************************************)
VARIABLES
    pc,            \* where main is: keyword, diffs, parse, blame, annotate,
                   \* names, count, done, error
    err,           \* the exception that ended the run ("" for none)
    rust_only,     \* main's second argument
    revisions,     \* the fixing revisions
    raw_data,      \* (revision, lines of its diff) per fixing revision
    rev_diffs,     \* the RevisionDiffs
    ri, fi,        \* the RevisionDiff and FileDiff the blame loops are at
    parent_rev,    \* FileDiff.get_blamed_revs: the parent it asked for
    blame_lines,   \* FileDiff.get_blamed_revs: the last listing it walked
    file_revs,     \* FileDiff.get_blamed_revs: the set it last returned
    processed,     \* the (ri, fi) FileDiff.get_blamed_revs was called for
    blamed_revs,   \* the blamed-revision set
    blamed_names,  \* the author map
    name_order,    \* the map's keys in insertion order
    ci,            \* the key the output loop is at
    output,        \* the printed lines
    queries,       \* the hg commands run, in order
    hg_failed,     \* some hg command exited with a nonzero status
    hg_diffs,      \* hg: the items of each diff fetched
    hg_author      \* hg: the author of each revision

vars == <<pc, err, rust_only, revisions, raw_data, rev_diffs, ri, fi,
          parent_rev, blame_lines, file_revs, processed, blamed_revs,
          blamed_names, name_order, ci, output, queries, hg_failed, hg_diffs,
          hg_author>>

\* blamed_names = { }
EmptyMap == [a \in {} |-> << >>]

Query(op, rev, file, author) ==
    [op |-> op, rev |-> rev, file |-> file, author |-> author]

\* HgPApi.run_command raising CalledProcessError
Raise(e) == /\ pc' = "error"
            /\ err' = e

Init ==
    /\ pc = "keyword"
    /\ err = ""
    /\ rust_only \in BOOLEAN
    /\ revisions = << >>
    /\ raw_data = << >>
    /\ rev_diffs = << >>
    /\ ri = 1
    /\ fi = 1
    /\ parent_rev = << >>
    /\ blame_lines = << >>
    /\ file_revs = {}
    /\ processed = << >>
    /\ blamed_revs = {}
    /\ blamed_names = EmptyMap
    /\ name_order = << >>
    /\ ci = 1
    /\ output = << >>
    /\ queries = << >>
    /\ hg_failed = FALSE
    /\ hg_diffs = << >>
    /\ hg_author \in [BlameRevs -> Authors]

(***************************************************************************)
(* main, step by step.  Each hg command is one step; the work between two  *)
(* commands belongs to the step of the command before it.                  *)
(***************************************************************************)

AfterKeywordAlways(revs) == "diffs"

\* lines 128-129: main returns when the search found nothing
AfterKeyword(revs) == IF revs = << >> THEN "done" ELSE "diffs"

\* line 127: revisions = HgPApi.revs_from_keyword(keyword)
revs_from_keyword ==
    /\ pc = "keyword"
    /\ queries' = Append(queries, Query("keyword", << >>, << >>, ""))
    /\ \/ /\ \E out \in KeywordOutputs :
               /\ revisions' = Split(out)
               /\ pc' = AfterKeyword(Split(out))
          /\ UNCHANGED <<err, hg_failed>>
       \/ /\ Raise("CalledProcessError")
          /\ hg_failed' = TRUE
          /\ UNCHANGED revisions
    /\ UNCHANGED <<rust_only, raw_data, rev_diffs, ri, fi, parent_rev,
                   blame_lines, file_revs, processed, blamed_revs, blamed_names,
                   name_order, ci, output, hg_diffs, hg_author>>

\* line 131: one HgPApi.diffs_from_rev(revision) of the list comprehension
diffs_from_rev ==
    /\ pc = "diffs"
    /\ LET revision == revisions[Len(raw_data) + 1]
       IN  /\ queries' = Append(queries, Query("diff", revision, << >>, ""))
           /\ \/ /\ \E items \in DiffTexts :
                      /\ hg_diffs' = Append(hg_diffs, items)
                      /\ raw_data' = Append(raw_data, <<revision, FormatDiff(items)>>)
                 /\ pc' = IF Len(raw_data) + 1 = Len(revisions)
                          THEN "parse" ELSE "diffs"
                 /\ UNCHANGED <<err, hg_failed>>
              \/ /\ Raise("CalledProcessError")
                 /\ hg_failed' = TRUE
                 /\ UNCHANGED <<raw_data, hg_diffs>>
    /\ UNCHANGED <<rust_only, revisions, rev_diffs, ri, fi, parent_rev,
                   blame_lines, file_revs, processed, blamed_revs, blamed_names,
                   name_order, ci, output, hg_author>>

\* the first FileDiff at or after (r, f) in the order the two loops of
\* get_blamed_revs visit them; r > Len(rds) when there is none
RECURSIVE NextFile(_, _, _)
NextFile(rds, r, f) ==
    IF r > Len(rds) THEN <<r, 1>>
    ELSE IF f > Len(rds[r].files) THEN NextFile(rds, r + 1, 1)
    ELSE <<r, f>>

\* lines 139-140: neither loop runs on an empty set or map
AfterBlame(revs) == IF revs = {} THEN "done" ELSE "names"

\* where main is once the blame loops stand at position pos
BlamePc(rds, pos, revs) ==
    IF pos[1] > Len(rds) THEN AfterBlame(revs) ELSE "blame"

\* line 133: one RevisionDiff(revision, d.splitlines()) of the list
\* comprehension; after the last one, get_blamed_revs starts its loops
ParseRevision ==
    /\ pc = "parse"
    /\ LET d  == raw_data[Len(rev_diffs) + 1]
           rd == RevisionDiff(d[1], d[2])
           rds == Append(rev_diffs, [revision |-> rd.revision, files |-> rd.files])
       IN  IF rd.err # ""
           THEN /\ Raise(rd.err)
                /\ UNCHANGED <<rev_diffs, ri, fi>>
           ELSE /\ rev_diffs' = rds
                /\ err' = err
                /\ IF Len(rds) = Len(raw_data)
                   THEN /\ ri' = NextFile(rds, 1, 1)[1]
                        /\ fi' = NextFile(rds, 1, 1)[2]
                        /\ pc' = BlamePc(rds, NextFile(rds, 1, 1), {})
                   ELSE /\ pc' = "parse"
                        /\ UNCHANGED <<ri, fi>>
    /\ UNCHANGED <<rust_only, revisions, raw_data, parent_rev, blame_lines,
                   file_revs, processed, blamed_revs, blamed_names, name_order, ci,
                   output, queries, hg_failed, hg_diffs, hg_author>>

CurFile == rev_diffs[ri].files[fi]

\* line 72: rust_only and not fdiff.is_rust_file()
Skips(only, filename) == only /\ ~is_rust_file(filename)

\* lines 72-73: continue
SkipFile ==
    /\ pc = "blame"
    /\ Skips(rust_only, CurFile.filename)
    /\ LET pos == NextFile(rev_diffs, ri, fi + 1)
       IN  /\ ri' = pos[1]
           /\ fi' = pos[2]
           /\ pc' = BlamePc(rev_diffs, pos, blamed_revs)
    /\ UNCHANGED <<err, rust_only, revisions, raw_data, rev_diffs, parent_rev,
                   blame_lines, file_revs, processed, blamed_revs, blamed_names,
                   name_order, ci, output, queries, hg_failed, hg_diffs,
                   hg_author>>

\* line 89: HgPApi.parent(self.revision)
ParentQuery ==
    /\ pc = "blame"
    /\ ~Skips(rust_only, CurFile.filename)
    /\ queries' = Append(queries, Query("parent", CurFile.revision, << >>, ""))
    /\ processed' = Append(processed, <<ri, fi>>)
    /\ \/ /\ \E p \in Parents(CurFile.revision) : parent_rev' = p
          /\ pc' = "annotate"
          /\ UNCHANGED <<err, hg_failed>>
       \/ /\ Raise("CalledProcessError")
          /\ hg_failed' = TRUE
          /\ UNCHANGED parent_rev
    /\ UNCHANGED <<rust_only, revisions, raw_data, rev_diffs, ri, fi,
                   blame_lines, file_revs, blamed_revs, blamed_names,
                   name_order, ci, output, hg_diffs, hg_author>>

\* lines 89-102, 74 and 114: HgPApi.blame(self.filename, parent), the walk
\* over the listing, and the union into the caller's set
BlameQuery ==
    /\ pc = "annotate"
    /\ queries' = Append(queries, Query("blame", parent_rev, CurFile.filename, ""))
    /\ \/ /\ \E listing \in BlameListings :
               /\ blame_lines' = listing
               /\ IF CurFile.diffs = << >>
                  THEN \* line 92: next(ldi) on an exhausted iterator
                       /\ Raise("StopIteration")
                       /\ UNCHANGED <<ri, fi, file_revs, blamed_revs>>
                  ELSE LET got == FileBlamedRevs(listing, CurFile.diffs, revisions)
                           pos == NextFile(rev_diffs, ri, fi + 1)
                       IN  /\ file_revs' = got
                           /\ blamed_revs' = blamed_revs \cup got
                           /\ ri' = pos[1]
                           /\ fi' = pos[2]
                           /\ pc' = BlamePc(rev_diffs, pos, blamed_revs \cup got)
                           /\ err' = err
          /\ UNCHANGED hg_failed
       \/ /\ Raise("CalledProcessError")
          /\ hg_failed' = TRUE
          /\ UNCHANGED <<ri, fi, blame_lines, file_revs, blamed_revs>>
    /\ UNCHANGED <<rust_only, revisions, raw_data, rev_diffs, parent_rev,
                   processed, blamed_names, name_order, ci, output, hg_diffs,
                   hg_author>>

(***************************************************************************)
(* get_blamed_names and the output loop.                                   *)
(***************************************************************************)

PopKeeps(revs, rev) == revs

\* line 120: what blamed_revs.pop() leaves in the set when it returns rev
PopRest(revs, rev) == revs \ {rev}

\* a < b as Python compares two str values
RECURSIVE TextLess(_, _)
TextLess(a, b) ==
    IF b = << >> THEN FALSE
    ELSE IF a = << >> THEN TRUE
    ELSE IF a[1] # b[1]
         THEN (CHOOSE d \in 1..10 : Digits[d] = a[1])
                < (CHOOSE d \in 1..10 : Digits[d] = b[1])
         ELSE TextLess(Tail(a), Tail(b))

EarlierAsText(rev, cur) == TextLess(rev, cur)

\* line 122: int(rev) < int(blamed_names[author])
Earlier(rev, cur) == PyInt(rev).val < PyInt(cur).val

AlwaysReplaces(names, author, rev) == TRUE

\* line 122: whether rev becomes the author's entry
Replaces(names, author, rev) ==
    (author \notin DOMAIN names) \/ Earlier(rev, names[author])

\* line 123: blamed_names[author] = rev
Put(names, author, rev) ==
    [a \in DOMAIN names \cup {author} |-> IF a = author THEN rev ELSE names[a]]

\* lines 119-123: one turn of the while loop, and the loop's end
get_blamed_names ==
    /\ pc = "names"
    /\ \E rev \in blamed_revs :
         /\ blamed_revs' = PopRest(blamed_revs, rev)
         /\ queries' = Append(queries, Query("author", rev, << >>, ""))
         /\ \/ /\ LET author == hg_author[rev]
                  IN  IF Replaces(blamed_names, author, rev)
                      THEN /\ blamed_names' = Put(blamed_names, author, rev)
                           /\ name_order' = IF author \in DOMAIN blamed_names
                                            THEN name_order
                                            ELSE Append(name_order, author)
                      ELSE UNCHANGED <<blamed_names, name_order>>
               /\ pc' = IF PopRest(blamed_revs, rev) = {} THEN "count" ELSE "names"
               /\ UNCHANGED <<err, hg_failed>>
            \/ /\ Raise("CalledProcessError")
               /\ hg_failed' = TRUE
               /\ UNCHANGED <<blamed_names, name_order>>
    /\ UNCHANGED <<rust_only, revisions, raw_data, rev_diffs, ri, fi,
                   parent_rev, blame_lines, file_revs, processed, ci, output, hg_diffs,
                   hg_author>>

\* line 140: the for loop moves to the map's next key
NextName(i) == i + 1

\* lines 140-142: HgPApi.count_prior_commits(name, blamed_names[name]) and
\* print.  The command is the shell pipeline "hg log ... | wc -c": its exit
\* status is that of wc, so a failing hg raises nothing and the bytes hg
\* wrote before it failed are counted and printed.
count_prior_commits ==
    /\ pc = "count"
    /\ LET name == name_order[ci]
           rev  == PyStr(PyInt(blamed_names[name]).val)
       IN  queries' = Append(queries, Query("count", rev, << >>, name))
    /\ \/ /\ \E n \in 1..MaxCount : output' = Append(output, PyStr(n))
          /\ UNCHANGED hg_failed
       \/ /\ \E n \in 0..MaxCount : output' = Append(output, PyStr(n))
          /\ hg_failed' = TRUE
    /\ ci' = NextName(ci)
    /\ pc' = IF NextName(ci) > Len(name_order) THEN "done" ELSE "count"
    /\ UNCHANGED <<err, rust_only, revisions, raw_data, rev_diffs, ri, fi,
                   parent_rev, blame_lines, file_revs, processed, blamed_revs,
                   blamed_names, name_order, hg_diffs, hg_author>>

Next ==
    \/ revs_from_keyword
    \/ diffs_from_rev
    \/ ParseRevision
    \/ SkipFile
    \/ ParentQuery
    \/ BlameQuery
    \/ get_blamed_names
    \/ count_prior_commits

Spec == Init /\ [][Next]_vars

(***************************************************************************)
(* The parse alone: main after it fetched the diff of one fixing revision, *)
(* for every diff of at most MaxItems items.                               *)
(***************************************************************************)

ParseItems ==
    { FileItem(NameRs), FileItem(NamePy),
      HunkItem(10, 5), HunkItem(20, 3), HunkItem(1, 0),
      TextItem(<< >>), TextItem(AddedLine), TextItem(HeaderLine) }

InitParse ==
    /\ pc = "parse"
    /\ err = ""
    /\ rust_only \in BOOLEAN
    /\ revisions = <<R11>>
    /\ \E items \in SeqsUpTo(ParseItems, MaxItems) :
         /\ hg_diffs = <<items>>
         /\ raw_data = <<<<R11, FormatDiff(items)>>>>
    /\ rev_diffs = << >>
    /\ ri = 1
    /\ fi = 1
    /\ parent_rev = << >>
    /\ blame_lines = << >>
    /\ file_revs = {}
    /\ processed = << >>
    /\ blamed_revs = {}
    /\ blamed_names = EmptyMap
    /\ name_order = << >>
    /\ ci = 1
    /\ output = << >>
    /\ queries = <<Query("keyword", << >>, << >>, ""), Query("diff", R11, << >>, "")>>
    /\ hg_failed = FALSE
    /\ hg_author = [r \in BlameRevs |-> "alice"]

NextParse == ParseRevision

SpecParse == InitParse /\ [][NextParse]_vars

(***************************************************************************)
(* get_blamed_names and the output loop alone: main after get_blamed_revs  *)
(* returned, for every non-empty set of blamed revisions out of NameRevs   *)
(* and every assignment of authors to them.  The run so far: one fixing    *)
(* revision, 11, whose diff has one hunk of a.rs covering one line per     *)
(* blamed revision.                                                        *)
(***************************************************************************)

NameRevs == {R9, R10, R30, R50}
NameAuthors == {"alice", "bob", "carol"}

\* the listing that blames one line on each revision of the set
RECURSIVE ListingOf(_)
ListingOf(revs) ==
    IF revs = {} THEN << >>
    ELSE LET r == CHOOSE x \in revs : \A y \in revs : ~TextLess(y, x)
         IN  <<BlameLine(r)>> \o ListingOf(revs \ {r})

InitNames ==
    /\ pc = "names"
    /\ err = ""
    /\ rust_only = FALSE
    /\ revisions = <<R11>>
    /\ \E revs \in (SUBSET NameRevs) \ {{}} :
         LET items == <<FileItem(NameRs), HunkItem(1, Cardinality(revs))>>
         IN  /\ hg_diffs = <<items>>
             /\ raw_data = <<<<R11, FormatDiff(items)>>>>
             /\ rev_diffs = << [revision |-> R11,
                                files |-> RevisionDiff(R11, FormatDiff(items)).files] >>
             /\ blame_lines = ListingOf(revs)
             /\ file_revs = revs
             /\ blamed_revs = revs
    /\ ri = 2
    /\ fi = 1
    /\ parent_rev = R10
    /\ processed = <<<<1, 1>>>>
    /\ blamed_names = EmptyMap
    /\ name_order = << >>
    /\ ci = 1
    /\ output = << >>
    /\ queries = << Query("keyword", << >>, << >>, ""), Query("diff", R11, << >>, ""),
                    Query("parent", R11, << >>, ""), Query("blame", R10, NameRs, "") >>
    /\ hg_failed = FALSE
    /\ hg_author \in [NameRevs -> NameAuthors]

NextNames == get_blamed_names \/ count_prior_commits

SpecNames == InitNames /\ [][NextNames]_vars

(***************************************************************************)
(* What the properties speak of.                                           *)
(***************************************************************************)

\* the fixing revisions
FixingSet == {revisions[j] : j \in 1..Len(revisions)}

\* the number a revision stands for
RevNumber(rev) ==
    CASE rev = R8 -> 8 [] rev = R9 -> 9 [] rev = R10 -> 10 [] rev = R11 -> 11
      [] rev = R30 -> 30 [] rev = R50 -> 50

\* the revision a line of a blame listing attributes its line to
LineRev(line) == CHOOSE r \in BlameRevs : BlameLine(r) = line

\* line index i lies in [start, start + count) of some range
InSomeRange(i, diffs) ==
    \E k \in 1..Len(diffs) :
        diffs[k].start <= i /\ i < diffs[k].start + diffs[k].count

\* the ranges arrive in non-decreasing start order
StartsOrdered(diffs) ==
    \A k \in 1..(Len(diffs) - 1) : diffs[k].start <= diffs[k + 1].start

\* the FileDiff FileDiff.get_blamed_revs was last called for
LastFile == rev_diffs[processed[Len(processed)][1]].files[processed[Len(processed)][2]]

\* FileDiff.get_blamed_revs has returned for LastFile, and blame_lines and
\* file_revs are that call's
Walked == processed # << >> /\ pc \notin {"annotate", "error"}

\* the revisions blamed for the lines of the listing inside a range
InRangeRevs(listing, diffs) ==
    {LineRev(listing[i + 1]) : i \in {j \in 0..(Len(listing) - 1) : InSomeRange(j, diffs)}}

\* the revisions get_blamed_names has popped: each is asked for its author
Popped == {queries[j].rev : j \in {q \in 1..Len(queries) : queries[q].op = "author"}}

\* the set get_blamed_names was called with
NamesArg == blamed_revs \cup Popped

AuthorsOf(revs) == {hg_author[r] : r \in revs}

\* the numerically smallest revision of the set that author wrote
EarliestOf(revs, author) ==
    CHOOSE r \in revs :
        /\ hg_author[r] = author
        /\ \A q \in revs : hg_author[q] = author => RevNumber(r) <= RevNumber(q)

C2_IntersectionExact ==
    (Walked /\ StartsOrdered(LastFile.diffs))
        => file_revs = InRangeRevs(blame_lines, LastFile.diffs) \ FixingSet

\* C3: calling FileDiff.get_blamed_revs for a FileDiff without ranges does
\* not fail: when hg answered every command, the run is not in error.
C3_EmptyHunkListNoError ==
    (processed # << >> /\ LastFile.diffs = << >> /\ ~hg_failed) => pc # "error"

\* C4: when get_blamed_names has returned, the map has exactly the authors
\* of the revisions it was called with, each mapped to the numerically
\* smallest of that author's revisions, whatever the order of the pops.
C4_MinPerAuthor ==
    pc \in {"count", "done"} =>
        /\ DOMAIN blamed_names = AuthorsOf(NamesArg)
        /\ \A a \in DOMAIN blamed_names :
               blamed_names[a] = EarliestOf(NamesArg, a)

\* alice blamed via 50 and 30, and another author via 10 and 9: the map
\* holds 30 and 9
C4_Witness ==
    /\ pc = "count"
    /\ NamesArg = {R9, R10, R30, R50}
    /\ hg_author[R50] = "alice" /\ hg_author[R30] = "alice"
    /\ hg_author[R9] = hg_author[R10] /\ hg_author[R9] # "alice"
    /\ blamed_names["alice"] = R30
    /\ blamed_names[hg_author[R9]] = R9

\* C5: once an hg command has exited with a nonzero status the run is in
\* error, and no later step runs a command or prints a line.
C5_ExternalFailureFatal ==
    [][ /\ hg_failed' => pc' = "error"
        /\ hg_failed => (queries' = queries /\ output' = output) ]_vars

\* C6: when the keyword search answers with no revision, main has ended
\* with no line printed and the search as the only command run.
C6_EmptyKeyword ==
    (pc # "keyword" /\ ~hg_failed /\ revisions = << >>) =>
        /\ pc = "done"
        /\ output = << >>
        /\ Len(queries) = 1
        /\ queries[1].op = "keyword"

C6_Witness == pc = "done" /\ revisions = << >> /\ Len(queries) = 1

\* the filename ends in the three characters ".rs"
EndsInRs(name) ==
    /\ Len(name) >= 3
    /\ name[Len(name) - 2] = "."
    /\ name[Len(name) - 1] = "r"
    /\ name[Len(name)] = "s"

\* the file is one the run is to look at
Wanted(name) == ~rust_only \/ EndsInRs(name)

\* the positions of all FileDiffs
AllFiles ==
    UNION {{<<r, f>> : f \in 1..Len(rev_diffs[r].files)} : r \in 1..Len(rev_diffs)}

ProcessedSet == {processed[j] : j \in 1..Len(processed)}

NameAt(pos) == rev_diffs[pos[1]].files[pos[2]].filename

IsParent(q) == q.op = "parent"
IsBlame(q) == q.op = "blame"
IsCount(q) == q.op = "count"

\* every FileDiff the loops have passed was processed if wanted and left
\* alone if not, and hg was asked about the processed ones only
C7_State ==
    /\ \A pos \in ProcessedSet : Wanted(NameAt(pos))
    /\ \A pos \in AllFiles :
          (pos[1] < ri \/ (pos[1] = ri /\ pos[2] < fi)) /\ Wanted(NameAt(pos))
              => pos \in ProcessedSet
    /\ Len(SelectSeq(queries, IsParent)) = Len(processed)
    /\ Len(SelectSeq(queries, IsBlame)) <= Len(processed)
    /\ \A j \in 1..Len(queries) :
          queries[j].op = "blame" =>
              /\ Wanted(queries[j].file)
              /\ \E pos \in ProcessedSet : NameAt(pos) = queries[j].file

\* the blamed-revision set grows only by what a wanted file contributes
C7_Step ==
    blamed_revs' # blamed_revs =>
        \/ pc = "names"
        \/ /\ pc = "annotate"
           /\ Wanted(CurFile.filename)
           /\ blamed_revs' = blamed_revs \cup file_revs'

\* C7: with rust_only, a FileDiff whose name does not end in ".rs" is never
\* processed, contributes nothing and causes no parent or blame command;
\* every other FileDiff is processed, as is every FileDiff without
\* rust_only.
C7_RustOnlyFilter == []C7_State /\ [][C7_Step]_vars

\* a rust-only run to its end that processed a file and skipped another
C7_Witness ==
    /\ rust_only
    /\ pc = "done"
    /\ ProcessedSet # {}
    /\ AllFiles \ ProcessedSet # {}
    /\ output # << >>

\* the n-th smallest member of a set of numbers
Nth(S, n) == CHOOSE x \in S : Cardinality({y \in S : y < x}) = n - 1

\* each hunk header follows some file marker
HunksFollowFiles(items) ==
    \A h \in 1..Len(items) :
        items[h].k = "hunk" => \E p \in 1..(h - 1) : items[p].k = "file"

\* files holds one FileDiff per file marker, in order, and its k-th range is
\* the k-th hunk header between the marker and the next one
ParsedAs(files, items) ==
    LET FP == {p \in 1..Len(items) : items[p].k = "file"}
    IN  /\ Len(files) = Cardinality(FP)
        /\ \A k \in 1..Len(files) :
             LET p == Nth(FP, k)
                 q == IF k = Cardinality(FP) THEN Len(items) + 1 ELSE Nth(FP, k + 1)
                 H == {h \in (p + 1)..(q - 1) : items[h].k = "hunk"}
             IN  /\ files[k].filename = items[p].name
                 /\ Len(files[k].diffs) = Cardinality(H)
                 /\ \A m \in 1..Cardinality(H) :
                        files[k].diffs[m] =
                            [start |-> items[Nth(H, m)].start - 1,
                             count |-> items[Nth(H, m)].count]

\* C8: a diff in which each hunk header follows a file marker parses, into
\* one FileDiff per marker with the hunk headers under it as its ranges,
\* start = old-side start - 1 and count = old-side count; other lines add
\* nothing.
C8_ParseStructure ==
    /\ \A j \in 1..Len(rev_diffs) :
          HunksFollowFiles(hg_diffs[j]) => ParsedAs(rev_diffs[j].files, hg_diffs[j])
    /\ (pc = "error" /\ err \in {"IndexError", "ValueError"})
          => ~HunksFollowFiles(hg_diffs[Len(rev_diffs) + 1])

\* headers -10,5 and -20,3 under one marker: ranges {9, 5} and {19, 3}
C8_Witness ==
    /\ Len(rev_diffs) = 1
    /\ rev_diffs[1].files =
         << [revision |-> R11, filename |-> NameRs,
             diffs |-> << [start |-> 9, count |-> 5], [start |-> 19, count |-> 3] >>] >>

\* C9: a run that ended normally printed one line per distinct author of a
\* blamed revision, each after one count command for that author and the
\* author's numerically smallest blamed revision.
C9_OneLinePerAuthor ==
    pc = "done" =>
        LET A  == AuthorsOf(NamesArg)
            cq == SelectSeq(queries, IsCount)
        IN  /\ Len(output) = Cardinality(A)
            /\ Len(cq) = Len(output)
            /\ \A a \in A : Cardinality({j \in 1..Len(cq) : cq[j].author = a}) = 1
            /\ \A j \in 1..Len(cq) :
                  /\ cq[j].author \in A
                  /\ cq[j].rev = EarliestOf(NamesArg, cq[j].author)

\* two blamed revisions of one author, one line
C9_Witness ==
    /\ pc = "done"
    /\ ~hg_failed
    /\ Cardinality(Popped) = 2
    /\ Len(output) = 1

\* the entities get_blamed_revs and get_blamed_names are given stay as built
FrameKept ==
    pc \in {"blame", "annotate", "names"} =>
        UNCHANGED <<revisions, raw_data, rev_diffs>>

\* C10 as stated: nothing but the author map changes; a turn of
\* get_blamed_names leaves the blamed-revision set as it was.
C10_OnlyAuthorMapMutated ==
    [][ FrameKept /\ (pc = "names" => blamed_revs' = blamed_revs) ]_vars

\* C10, amended: the fixing revisions, RevisionDiffs, FileDiffs and ranges
\* stay as built, while each turn of get_blamed_names removes one revision
\* from the blamed-revision set, which is empty when it returns.
C10_SetDrained ==
    [][ /\ FrameKept
        /\ pc = "names" =>
              /\ blamed_revs' \subseteq blamed_revs
              /\ Cardinality(blamed_revs') = Cardinality(blamed_revs) - 1
        /\ (pc = "names" /\ pc' = "count") => blamed_revs' = {} ]_vars

\* get_blamed_names has returned and the set it was given is empty
C10_Witness ==
    /\ pc = "count"
    /\ Popped # {}
    /\ blamed_revs = {}
    /\ DOMAIN blamed_names # {}

=============================================================================
